---------------------------- MODULE Spec2Model ----------------------------
(***************************************************************************)
(* Model of crates/polars-parquet/src/arrow/read/deserialize/binary/       *)
(* utils.rs: the Binary<O> builder (offsets + values) and the BinaryIter   *)
(* cursor over length-prefixed records.                                    *)
(*                                                                         *)
(* A panic unwinds out of the call that raised it.  The model records the  *)
(* memory state at the point of the panic and the kind of panic in         *)
(* `status`; no operation is applied to a panicked object afterwards.      *)
(***************************************************************************)
EXTENDS Integers, Sequences, FiniteSets, TLC

VARIABLES
    bin,        \* the Binary<O> builder: offsets (buf, cap) and values (buf, cap)
    status,     \* "new" | "ok" | "panic_unwrap" | "panic_assert_eq"
    last,       \* the call that produced this state (call log, one entry)
    entries,    \* history: the byte strings appended so far, in order
    cap0,       \* history: the argument of with_capacity
    nops,       \* number of calls made on the builder
    recals,     \* history: number of calls that entered the sampling branch
    it,         \* the BinaryIter: values (remaining view) and max_num_values
    it_status,  \* "new" | "some" | "none" | "panic_split_at" | "panic_assert"
    it_item,    \* the slice returned by the last next() that returned Some
    input,      \* history: the buffer and count BinaryIter::new was given
    yielded,    \* history: the slices returned so far, in order
    it_calls    \* history: number of calls of next() made

vars == <<bin, status, last, entries, cap0, nops, recals,
          it, it_status, it_item, input, yielded, it_calls>>
builderVars == <<bin, status, last, entries, cap0, nops, recals>>
iterVars == <<it, it_status, it_item, input, yielded, it_calls>>

----------------------------------------------------------------------------
(* Bounds of the model.                                                    *)

\* Largest value of the offset type O (a signed integer type; i32 and i64 in
\* the program).  The model uses a 12-bit signed width so that the overflow
\* branch of try_push is within reach.
OffsetMax == 2047
\* Number of calls made on one builder.
MaxOps == 4
\* Byte length of the long value pushed into the builder.
BigLen == 800
\* Number of pushes in the growth scenario.
MaxGrowthPushes == 102
\* Number of records framed into a cursor input.
MaxVals == 3

----------------------------------------------------------------------------
(* Program constants.                                                      *)

\* utils.rs:22-23: the row count at which push samples bytes-per-row.
SampleRows == 100
\* utils.rs:16: rows and bytes per row of the initial values reservation.
InitRows == 100
InitBytesPerRow == 24
\* utils.rs:118: the byte width of a length prefix.
PrefixLen == 4

----------------------------------------------------------------------------
(* Helpers.                                                                *)

Max(a, b) == IF a >= b THEN a ELSE b
Min(a, b) == IF a <= b THEN a ELSE b
Rep(x, n) == [i \in 1..n |-> x]
Last(s) == s[Len(s)]
RECURSIVE Concat(_)
Concat(ss) == IF ss = <<>> THEN <<>> ELSE Head(ss) \o Concat(Tail(ss))

----------------------------------------------------------------------------
(* Vec<T>: a buffer and its reserved capacity.  Growth is the standard     *)
(* library's amortized growth: when the spare capacity is too small the    *)
(* capacity becomes max(2 * cap, len + additional, minimum non-zero cap).  *)

Vec_grow(len, cap, additional, min_cap) ==
    IF additional > cap - len
    THEN Max(Max(cap * 2, len + additional), min_cap)
    ELSE cap

Vec_with_capacity(n) == [buf |-> <<>>, cap |-> n]

Vec_reserve(v, additional) ==
    [v EXCEPT !.cap = Vec_grow(Len(v.buf), v.cap, additional, 8)]

Vec_extend(v, bytes) ==
    [buf |-> v.buf \o bytes,
     cap |-> Vec_grow(Len(v.buf), v.cap, Len(bytes), 8)]

----------------------------------------------------------------------------
(* Offsets<O>: a Vec<O> that starts with one 0.                            *)

Offsets_with_capacity(capacity) == [buf |-> <<0>>, cap |-> capacity + 1]

Offsets_len_proxy(o) == Len(o.buf) - 1

Offsets_capacity(o) == o.cap - 1

Offsets_last(o) == o.buf[Len(o.buf)]

\* Err(overflow) when the length or the new last offset does not fit O.
Offsets_try_push(o, length) ==
    IF length > OffsetMax \/ Offsets_last(o) + length > OffsetMax
    THEN [ok |-> FALSE, offsets |-> o]
    ELSE [ok |-> TRUE,
          offsets |-> [buf |-> Append(o.buf, Offsets_last(o) + length),
                       cap |-> Vec_grow(Len(o.buf), o.cap, 1, 4)]]

Offsets_extend_constant(o, additional) ==
    [buf |-> o.buf \o Rep(Offsets_last(o), additional),
     cap |-> Vec_grow(Len(o.buf), o.cap, additional, 4)]

Offsets_reserve(o, additional) ==
    [o EXCEPT !.cap = Vec_grow(Len(o.buf), o.cap, additional, 4)]

----------------------------------------------------------------------------
(* Binary<O>.  Every operation returns the builder it leaves behind, how   *)
(* the call ended ("ok" or the panic) and whether the sampling branch of   *)
(* push (utils.rs:23-27) was entered.                                      *)

Binary_with_capacity(capacity) ==
    [offsets |-> Offsets_with_capacity(capacity),
     values  |-> Vec_with_capacity(Min(capacity, InitRows) * InitBytesPerRow)]

\* Mutant: the sampling branch entered one push early.
Binary_push_samples_one_early(B) ==
    /\ Offsets_len_proxy(B.offsets) = SampleRows - 1
    /\ Offsets_capacity(B.offsets) > SampleRows

\* Mutant: the sampling branch entered by every push from the sampling row on.
Binary_push_samples_every_push(B) ==
    /\ Offsets_len_proxy(B.offsets) >= SampleRows
    /\ Offsets_capacity(B.offsets) > SampleRows

\* utils.rs:22: the condition of the sampling branch.
Binary_push_samples(B) ==
    /\ Offsets_len_proxy(B.offsets) = SampleRows
    /\ Offsets_capacity(B.offsets) > SampleRows

\* utils.rs:23-27: the values buffer after the sampling branch.
Binary_push_sampled(B) ==
    LET bytes_per_row  == (Len(B.values.buf) \div SampleRows) + 1
        bytes_estimate == bytes_per_row * Offsets_capacity(B.offsets)
    IN IF bytes_estimate > B.values.cap
       THEN Vec_reserve(B.values, bytes_estimate - B.values.cap)
       ELSE B.values

\* Mutant: the value's bytes are not appended to the values buffer.
Binary_push_no_extend(B, v) ==
    LET pushed == Offsets_try_push(B.offsets, Len(v))
    IN [bin    |-> [offsets |-> pushed.offsets, values |-> B.values],
        status |-> IF pushed.ok THEN "ok" ELSE "panic_unwrap",
        recal  |-> Binary_push_samples(B)]

Binary_push(B, v) ==
    LET samples == Binary_push_samples(B)
        values1 == IF samples THEN Binary_push_sampled(B) ELSE B.values
        values2 == Vec_extend(values1, v)
        pushed  == Offsets_try_push(B.offsets, Len(v))
    IN [bin    |-> [offsets |-> pushed.offsets, values |-> values2],
        status |-> IF pushed.ok THEN "ok" ELSE "panic_unwrap",
        recal  |-> samples]

\* Mutant: one entry too many.
Binary_extend_constant_one_more(B, additional) ==
    [bin    |-> [B EXCEPT !.offsets = Offsets_extend_constant(B.offsets, additional + 1)],
     status |-> "ok",
     recal  |-> FALSE]

Binary_extend_constant(B, additional) ==
    [bin    |-> [B EXCEPT !.offsets = Offsets_extend_constant(B.offsets, additional)],
     status |-> "ok",
     recal  |-> FALSE]

\* Mutant: the number of offsets, the leading 0 included.
Binary_len_offsets_count(B) == Len(B.offsets.buf)

Binary_len(B) == Offsets_len_proxy(B.offsets)

\* Mutant: the per-value size is the average over the appended entries.
Pushable_reserve_avg_per_entry(B, additional) ==
    LET avg_len == Len(B.values.buf) \div Max(Offsets_len_proxy(B.offsets), 1)
    IN [bin    |-> [offsets |-> Offsets_reserve(B.offsets, additional),
                    values  |-> Vec_reserve(B.values, additional * avg_len)],
        status |-> "ok",
        recal  |-> FALSE]

Pushable_reserve(B, additional) ==
    LET avg_len == Len(B.values.buf) \div Max(Offsets_last(B.offsets), 1)
    IN [bin    |-> [offsets |-> Offsets_reserve(B.offsets, additional),
                    values  |-> Vec_reserve(B.values, additional * avg_len)],
        status |-> "ok",
        recal  |-> FALSE]

Pushable_len(B) == Binary_len(B)

\* Mutant: a null entry appended as a constant extend of one.
Pushable_push_null_as_extend(B) == Binary_extend_constant(B, 1)

Pushable_push_null(B) == Binary_push(B, <<>>)

Pushable_push(B, value) == Binary_push(B, value)

\* Mutant: the value is not checked.
Pushable_extend_constant_no_assert(B, additional, value) ==
    Binary_extend_constant(B, additional)

Pushable_extend_constant(B, additional, value) ==
    IF Len(value) # 0
    THEN [bin |-> B, status |-> "panic_assert_eq", recal |-> FALSE]
    ELSE Binary_extend_constant(B, additional)

Pushable_extend_null_constant(B, additional) == Binary_extend_constant(B, additional)

----------------------------------------------------------------------------
(* BinaryIter.  next returns the cursor it leaves behind, how the call     *)
(* ended ("some", "none" or the panic) and the slice it returned.          *)

\* Mutant: the prefix read as big-endian.
from_be_bytes(b) == b[4] + 256 * b[3] + 65536 * b[2] + 16777216 * b[1]

\* u32::from_le_bytes of four bytes, then `as usize`.
from_le_bytes(b) == b[1] + 256 * b[2] + 65536 * b[3] + 16777216 * b[4]

BinaryIter_new(values, max_num_values) ==
    [values |-> values, max_num_values |-> max_num_values]

BinaryIter_len_when_not_nullable(I) == I.max_num_values

\* (0, Some(max_num_values))
BinaryIter_size_hint(I) == <<0, <<"Some", I.max_num_values>>>>

\* Mutant: the remaining count is not decremented.
BinaryIter_next_no_decrement(I) ==
    IF I.max_num_values = 0
    THEN IF I.values = <<>>
         THEN [it |-> I, out |-> "none", item |-> <<>>]
         ELSE [it |-> I, out |-> "panic_assert", item |-> <<>>]
    ELSE IF PrefixLen > Len(I.values)
    THEN [it |-> I, out |-> "panic_split_at", item |-> <<>>]
    ELSE LET length    == from_le_bytes(SubSeq(I.values, 1, PrefixLen))
             remaining == SubSeq(I.values, PrefixLen + 1, Len(I.values))
         IN IF length > Len(remaining)
            THEN [it |-> I, out |-> "panic_split_at", item |-> <<>>]
            ELSE [it   |-> [values |-> SubSeq(remaining, length + 1, Len(remaining)),
                            max_num_values |-> I.max_num_values],
                  out  |-> "some",
                  item |-> SubSeq(remaining, 1, length)]

\* Mutant: None whenever the remaining count is zero, bytes left or not.
BinaryIter_next_no_assert(I) ==
    IF I.max_num_values = 0
    THEN [it |-> I, out |-> "none", item |-> <<>>]
    ELSE IF PrefixLen > Len(I.values)
    THEN [it |-> I, out |-> "panic_split_at", item |-> <<>>]
    ELSE LET length    == from_le_bytes(SubSeq(I.values, 1, PrefixLen))
             remaining == SubSeq(I.values, PrefixLen + 1, Len(I.values))
         IN IF length > Len(remaining)
            THEN [it |-> I, out |-> "panic_split_at", item |-> <<>>]
            ELSE [it   |-> [values |-> SubSeq(remaining, length + 1, Len(remaining)),
                            max_num_values |-> I.max_num_values - 1],
                  out  |-> "some",
                  item |-> SubSeq(remaining, 1, length)]

\* Mutant: the view advances past the value but not past its prefix.
BinaryIter_next_keeps_prefix(I) ==
    IF I.max_num_values = 0
    THEN IF I.values = <<>>
         THEN [it |-> I, out |-> "none", item |-> <<>>]
         ELSE [it |-> I, out |-> "panic_assert", item |-> <<>>]
    ELSE IF PrefixLen > Len(I.values)
    THEN [it |-> I, out |-> "panic_split_at", item |-> <<>>]
    ELSE LET length    == from_le_bytes(SubSeq(I.values, 1, PrefixLen))
             remaining == SubSeq(I.values, PrefixLen + 1, Len(I.values))
         IN IF length > Len(remaining)
            THEN [it |-> I, out |-> "panic_split_at", item |-> <<>>]
            ELSE [it   |-> [values |-> SubSeq(I.values, length + 1, Len(I.values)),
                            max_num_values |-> I.max_num_values - 1],
                  out  |-> "some",
                  item |-> SubSeq(remaining, 1, length)]

\* Mutant: the count is decremented (wrapping) before it is tested, so the
\* call that returns None leaves a non-zero count behind.
BinaryIter_next_decrements_first(I) ==
    IF I.max_num_values = 0
    THEN IF I.values = <<>>
         THEN [it |-> [I EXCEPT !.max_num_values = 2147483647],
               out |-> "none", item |-> <<>>]
         ELSE [it |-> I, out |-> "panic_assert", item |-> <<>>]
    ELSE IF PrefixLen > Len(I.values)
    THEN [it |-> I, out |-> "panic_split_at", item |-> <<>>]
    ELSE LET length    == from_le_bytes(SubSeq(I.values, 1, PrefixLen))
             remaining == SubSeq(I.values, PrefixLen + 1, Len(I.values))
         IN IF length > Len(remaining)
            THEN [it |-> I, out |-> "panic_split_at", item |-> <<>>]
            ELSE [it   |-> [values |-> SubSeq(remaining, length + 1, Len(remaining)),
                            max_num_values |-> I.max_num_values - 1],
                  out  |-> "some",
                  item |-> SubSeq(remaining, 1, length)]

\* slice::split_at(mid) panics when mid > len.
BinaryIter_next(I) ==
    IF I.max_num_values = 0
    THEN IF I.values = <<>>
         THEN [it |-> I, out |-> "none", item |-> <<>>]
         ELSE [it |-> I, out |-> "panic_assert", item |-> <<>>]
    ELSE IF PrefixLen > Len(I.values)
    THEN [it |-> I, out |-> "panic_split_at", item |-> <<>>]
    ELSE LET length    == from_le_bytes(SubSeq(I.values, 1, PrefixLen))
             remaining == SubSeq(I.values, PrefixLen + 1, Len(I.values))
         IN IF length > Len(remaining)
            THEN [it |-> I, out |-> "panic_split_at", item |-> <<>>]
            ELSE [it   |-> [values |-> SubSeq(remaining, length + 1, Len(remaining)),
                            max_num_values |-> I.max_num_values - 1],
                  out  |-> "some",
                  item |-> SubSeq(remaining, 1, length)]

----------------------------------------------------------------------------
(* Inputs.                                                                 *)

Caps == {0, 1, 100, 101, 1000, 3000}
Counts == {0, 1, 99, 100}
BigVal == Rep(120, BigLen)
PushVals == {<<>>, <<7>>, <<1, 2>>, BigVal}
ConstVals == {<<>>, <<7>>}
ReserveArgs == {1, 50}
GrowthCaps == {100, 101, 1000}
TenBytes == Rep(65, 10)

\* The byte strings framed into a cursor input, and the bytes that may follow
\* a (possibly truncated) framing.
Vals == {<<>>, <<97, 98>>, <<120, 121, 122>>}
Junk == {<<>>, <<0>>, <<2, 1, 0, 0, 9>>}
\* The byte strings decoded into a builder: Vals and one whose length needs
\* the second byte of the prefix.
DecodeVals == Vals \cup {Rep(66, 300)}
SeqsUpTo(S, n) == UNION {[1..k -> S] : k \in 0..n}

\* The wire format: each record is a u32 little-endian length, then the bytes.
to_le_bytes(n) ==
    <<n % 256, (n \div 256) % 256, (n \div 65536) % 256, (n \div 16777216) % 256>>
Frame(S) == Concat([i \in 1..Len(S) |-> to_le_bytes(Len(S[i])) \o S[i]])

----------------------------------------------------------------------------
(* The builder: any sequence of calls.                                     *)

NoIter ==
    /\ it = BinaryIter_new(<<>>, 0)
    /\ it_status = "new"
    /\ it_item = <<>>
    /\ input = BinaryIter_new(<<>>, 0)
    /\ yielded = <<>>
    /\ it_calls = 0

NewBuilder(capacity) ==
    /\ cap0 = capacity
    /\ bin = Binary_with_capacity(capacity)
    /\ status = "new"
    /\ last = [op |-> "with_capacity", k |-> capacity, v |-> <<>>, recal |-> FALSE]
    /\ entries = <<>>
    /\ nops = 0
    /\ recals = 0

Init == (\E c \in Caps : NewBuilder(c)) /\ NoIter

Live == status \in {"new", "ok"}

\* The call `op` with arguments k, v ended as r; `app` are the entries it appends.
Called(op, k, v, r, app) ==
    /\ bin' = r.bin
    /\ status' = r.status
    /\ last' = [op |-> op, k |-> k, v |-> v, recal |-> r.recal]
    /\ entries' = IF r.status = "ok" THEN entries \o app ELSE entries
    /\ nops' = nops + 1
    /\ recals' = IF r.recal THEN recals + 1 ELSE recals
    /\ UNCHANGED cap0

Push ==
    /\ Live /\ nops < MaxOps
    /\ \E v \in PushVals : Called("push", 0, v, Pushable_push(bin, v), <<v>>)
    /\ UNCHANGED iterVars

PushNull ==
    /\ Live /\ nops < MaxOps
    /\ Called("push_null", 0, <<>>, Pushable_push_null(bin), <<<<>>>>)
    /\ UNCHANGED iterVars

ExtendConstant ==
    /\ Live /\ nops < MaxOps
    /\ \E k \in Counts :
         Called("extend_constant", k, <<>>, Binary_extend_constant(bin, k), Rep(<<>>, k))
    /\ UNCHANGED iterVars

ExtendNullConstant ==
    /\ Live /\ nops < MaxOps
    /\ \E k \in Counts :
         Called("extend_null_constant", k, <<>>,
                Pushable_extend_null_constant(bin, k), Rep(<<>>, k))
    /\ UNCHANGED iterVars

ExtendConstantValue ==
    /\ Live /\ nops < MaxOps
    /\ \E k \in Counts, v \in ConstVals :
         Called("extend_constant_value", k, v,
                Pushable_extend_constant(bin, k, v), Rep(<<>>, k))
    /\ UNCHANGED iterVars

Reserve ==
    /\ Live /\ nops < MaxOps
    /\ \E n \in ReserveArgs :
         Called("reserve", n, <<>>, Pushable_reserve(bin, n), <<>>)
    /\ UNCHANGED iterVars

Next == Push \/ PushNull \/ ExtendConstant \/ ExtendNullConstant
        \/ ExtendConstantValue \/ Reserve

Spec == Init /\ [][Next]_vars

----------------------------------------------------------------------------
(* The growth scenario: one builder, pushes of 10-byte values only.        *)

InitGrowth == (\E c \in GrowthCaps : NewBuilder(c)) /\ NoIter

PushTen ==
    /\ Live /\ nops < MaxGrowthPushes
    /\ Called("push", 0, TenBytes, Binary_push(bin, TenBytes), <<TenBytes>>)
    /\ UNCHANGED iterVars

NextGrowth == PushTen

SpecGrowth == InitGrowth /\ [][NextGrowth]_vars

----------------------------------------------------------------------------
(* The cursor over any buffer: a framing, cut anywhere, followed by junk,  *)
(* with any count.                                                         *)

NewIter(values, max_num_values) ==
    /\ input = BinaryIter_new(values, max_num_values)
    /\ it = BinaryIter_new(values, max_num_values)
    /\ it_status = "new"
    /\ it_item = <<>>
    /\ yielded = <<>>
    /\ it_calls = 0

IterLive == it_status \in {"new", "some", "none"}

\* One call of next().
IterCalled(r) ==
    /\ it' = r.it
    /\ it_status' = r.out
    /\ it_item' = r.item
    /\ yielded' = IF r.out = "some" THEN Append(yielded, r.item) ELSE yielded
    /\ it_calls' = it_calls + 1
    /\ UNCHANGED input

InitCursor ==
    /\ \E S \in SeqsUpTo(Vals, MaxVals), j \in Junk, n \in 0..(MaxVals + 1) :
         \E cut \in 0..Len(Frame(S)) :
            NewIter(SubSeq(Frame(S), 1, cut) \o j, n)
    /\ NewBuilder(0)

\* At most MaxVals + 3 calls of next(): enough to call it again after None.
IterNext ==
    /\ IterLive
    /\ it_calls < MaxVals + 3
    /\ IterCalled(BinaryIter_next(it))
    /\ UNCHANGED builderVars

NextCursor == IterNext

SpecCursor == InitCursor /\ [][NextCursor]_vars

----------------------------------------------------------------------------
(* Decoding: the cursor over the framing of S with max_num_values = |S|,   *)
(* every yielded slice pushed into a builder.                              *)

InitDecode ==
    /\ \E S \in SeqsUpTo(DecodeVals, MaxVals) : NewIter(Frame(S), Len(S))
    /\ \E c \in {0, MaxVals} : NewBuilder(c)

DecodeStep ==
    /\ IterLive /\ Live
    /\ it_status # "none"
    /\ LET r == BinaryIter_next(it)
       IN /\ IterCalled(r)
          /\ IF r.out = "some"
             THEN Called("push", 0, r.item, Binary_push(bin, r.item), <<r.item>>)
             ELSE UNCHANGED builderVars

NextDecode == DecodeStep

SpecDecode == InitDecode /\ [][NextDecode]_vars

----------------------------------------------------------------------------
(* Claims.                                                                 *)

\* The bytes of entry i of a builder: values[offsets[i-1] .. offsets[i]].
EntryBytes(B, i) == SubSeq(B.values.buf, B.offsets.buf[i] + 1, B.offsets.buf[i + 1])

C2_RoundTrip ==
    \A S \in SeqsUpTo(DecodeVals, MaxVals) :
        (input = BinaryIter_new(Frame(S), Len(S))) =>
            LET n == Len(yielded)
            IN /\ it_status \in {"new", "some", "none"}
               /\ n <= Len(S)
               /\ yielded = SubSeq(S, 1, n)
               /\ BinaryIter_next(it).out = IF n = Len(S) THEN "none" ELSE "some"
               /\ n < Len(S) => BinaryIter_next(it).item = S[n + 1]
               /\ it_status = "none" => n = Len(S)
               /\ status \in {"new", "ok"}
               /\ Binary_len(bin) = n
               /\ \A i \in 1..n : EntryBytes(bin, i) = S[i]

\* C2 witness: "ab", "", "xyz" decoded to the end.
C2_Witness ==
    /\ it_status = "none"
    /\ yielded = << <<97, 98>>, <<>>, <<120, 121, 122>> >>
    /\ Binary_len(bin) = 3
    /\ bin.values.buf = <<97, 98, 120, 121, 122>>

\* C3: after with_capacity(1000) and exactly 100 pushes of 10-byte values, the
\* values buffer has a reserved capacity of at least (1000/100 + 1) * 1000.
C3_GrowthAfter100 ==
    (cap0 = 1000 /\ status = "ok" /\ nops = 100 /\ Binary_len(bin) = 100) =>
        bin.values.cap >= ((1000 \div 100) + 1) * 1000

\* A step that is one call on the builder / one call of next().
BuilderCall == nops' = nops + 1
NextCall == it_calls' = it_calls + 1

\* C4: a push whose new cumulative length does not fit the offset type
\* returns an offset-overflow error value to the caller; the offsets are left
\* as they were (nothing wrapped, truncated or appended).
C4_OverflowIsErrorValue ==
    [][(/\ BuilderCall
        /\ last'.op = "push"
        /\ Offsets_last(bin.offsets) + Len(last'.v) > OffsetMax)
       => (/\ status' = "err_offset_overflow"
           /\ bin'.offsets.buf = bin.offsets.buf)]_vars

\* The cursor cannot satisfy the next record: fewer than 4 bytes for the
\* prefix, or fewer bytes than the decoded length for the value.
Corrupt(I) ==
    \/ Len(I.values) < PrefixLen
    \/ from_le_bytes(SubSeq(I.values, 1, PrefixLen)) > Len(I.values) - PrefixLen

\* C5: next() called with remaining count > 0 on a buffer that cannot satisfy
\* the next record returns a corrupt-encoding error value to the caller (no
\* panic, no shortened slice).
C5_CorruptIsErrorValue ==
    [][(NextCall /\ it.max_num_values > 0 /\ Corrupt(it))
       => (it_status' = "err_corrupt_encoding" /\ yielded' = yielded)]_vars

\* C6: extend_constant(k) and extend_null_constant(k) increase len() by k,
\* leave the values buffer as it is, leave the recorded offsets as they are
\* and append k offsets equal to the previous last offset.
C6_ExtendConstantFrame ==
    [][(BuilderCall /\ last'.op \in {"extend_constant", "extend_null_constant"})
       => LET k == last'.k
              n == Len(bin.offsets.buf)
          IN /\ status' = "ok"
             /\ Binary_len(bin') = Binary_len(bin) + k
             /\ bin'.values = bin.values
             /\ SubSeq(bin'.offsets.buf, 1, n) = bin.offsets.buf
             /\ \A i \in (n + 1)..(n + k) :
                    bin'.offsets.buf[i] = Offsets_last(bin.offsets)]_vars

\* C6 witness: extend_null_constant(99) on a builder that holds bytes.
C6_Witness ==
    /\ status = "ok"
    /\ last.op = "extend_null_constant" /\ last.k = 99
    /\ Offsets_last(bin.offsets) = BigLen
    /\ Binary_len(bin) = 100

\* A cursor input that is the framing of some S with max_num_values = |S|.
WellFormed == \E S \in SeqsUpTo(Vals, MaxVals) : input = BinaryIter_new(Frame(S), Len(S))

\* C7: len_when_not_nullable() is max_num_values after construction, is one
\* less after every next() that returns a value, is unchanged by a next()
\* that returns None, and never increases; size_hint() is (0, Some(remaining
\* count)); on a well-formed framing of n values the count ends at 0.
C7_RemainingState ==
    LET remaining == input.max_num_values - Len(yielded)
    IN /\ BinaryIter_len_when_not_nullable(it) = remaining
       /\ BinaryIter_size_hint(it) = <<0, <<"Some", remaining>>>>
       /\ it_status = "new" => BinaryIter_len_when_not_nullable(it) = input.max_num_values
       /\ (WellFormed /\ it_status = "none") =>
              /\ BinaryIter_len_when_not_nullable(it) = 0
              /\ Len(yielded) = input.max_num_values
       /\ WellFormed => it_status \in {"new", "some", "none"}

C7_RemainingStep ==
    NextCall =>
        LET before == BinaryIter_len_when_not_nullable(it)
            after  == BinaryIter_len_when_not_nullable(it')
        IN /\ it_status' = "some" => after = before - 1
           /\ it_status' = "none" => after = before
           /\ after <= before

C7_RemainingCount == [] C7_RemainingState /\ [][C7_RemainingStep]_vars

\* C7 witness: a well-formed framing of 3 values read to the end: 3, 2, 1, 0.
C7_Witness ==
    /\ WellFormed
    /\ input.max_num_values = 3
    /\ it_status = "none"
    /\ Len(yielded) = 3
    /\ BinaryIter_len_when_not_nullable(it) = 0

\* C8: next() returns None only when the remaining count is zero and the
\* remaining view is empty; with the count at zero and bytes left the call
\* fails the assertion and returns neither None nor a value.
C8_CountMismatchFatal ==
    [][NextCall =>
        /\ it_status' = "none" <=> (it.max_num_values = 0 /\ it.values = <<>>)
        /\ (it.max_num_values = 0 /\ it.values # <<>>) =>
              (it_status' = "panic_assert" /\ yielded' = yielded /\ it' = it)]_vars

\* C8 witness: the count ran out after a value was yielded, bytes are left.
C8_Witness ==
    /\ it_status = "panic_assert"
    /\ Len(yielded) >= 1
    /\ it.max_num_values = 0
    /\ it.values # <<>>

\* C9: the constant extend with a non-empty value fails the assertion and
\* leaves len(), offsets and values as they were; with an empty value it does
\* what extend_constant(count) does.
C9_EmptyOnlyConstantExtend ==
    [][(BuilderCall /\ last'.op = "extend_constant_value")
       => IF Len(last'.v) # 0
          THEN status' = "panic_assert_eq" /\ bin' = bin /\ entries' = entries
          ELSE /\ status' = "ok"
               /\ bin' = Binary_extend_constant(bin, last'.k).bin
               /\ bin'.offsets.buf =
                      bin.offsets.buf \o Rep(Offsets_last(bin.offsets), last'.k)
               /\ bin'.values = bin.values]_vars

\* C9 witness: a non-empty value rejected on a builder that holds entries.
C9_Witness ==
    /\ status = "panic_assert_eq"
    /\ last.op = "extend_constant_value" /\ last.v = <<7>> /\ last.k = 99
    /\ Binary_len(bin) = 2
    /\ Offsets_last(bin.offsets) > 0

\* C10: push_null() leaves the state push(&[]) leaves (offsets, values,
\* len(), reserved capacities, the sampling branch entered or not): one
\* zero-length entry is appended and no byte is added to values.
C10_PushNullIsPushEmpty ==
    [][(BuilderCall /\ last'.op = "push_null")
       => LET r == Binary_push(bin, <<>>)
          IN /\ status' = "ok" /\ r.status = "ok"
             /\ bin' = r.bin
             /\ last'.recal = r.recal
             /\ last'.recal = (Binary_len(bin) = SampleRows
                               /\ Offsets_capacity(bin.offsets) > SampleRows)
             /\ bin'.offsets.buf = Append(bin.offsets.buf, Offsets_last(bin.offsets))
             /\ bin'.values.buf = bin.values.buf
             /\ Binary_len(bin') = Binary_len(bin) + 1]_vars

\* C10 witness: a push_null that entered the sampling branch and reserved.
C10_Witness ==
    /\ status = "ok"
    /\ last.op = "push_null" /\ last.recal
    /\ Binary_len(bin) = 101
    /\ bin.values.cap > InitRows * InitBytesPerRow

\* C11: len() is the number of entries appended so far (returned push and
\* push_null calls plus the counts of the constant extends), which is the
\* number of offsets minus one; it is 0 after construction, never decreases
\* and is unchanged by reserve.
C11_LengthState ==
    /\ Binary_len(bin) = Len(entries)
    /\ Pushable_len(bin) = Len(entries)
    /\ Binary_len(bin) = Len(bin.offsets.buf) - 1
    /\ status = "new" => Binary_len(bin) = 0

C11_LengthStep ==
    BuilderCall =>
        /\ Binary_len(bin') >= Binary_len(bin)
        /\ last'.op = "reserve" => Binary_len(bin') = Binary_len(bin)
        /\ (status' = "ok" /\ last'.op \in {"push", "push_null"}) =>
               Binary_len(bin') = Binary_len(bin) + 1
        /\ (status' = "ok" /\ last'.op \in {"extend_constant", "extend_null_constant",
                                             "extend_constant_value"}) =>
               Binary_len(bin') = Binary_len(bin) + last'.k

C11_Length == [] C11_LengthState /\ [][C11_LengthStep]_vars

\* C11 witness: reserve called on a builder that holds 101 entries.
C11_Witness ==
    /\ status = "ok"
    /\ last.op = "reserve"
    /\ Binary_len(bin) = 101
    /\ Offsets_last(bin.offsets) > 0

IsPush(op) == op \in {"push", "push_null"}

C13_SingleShot == recals <= 1

\* C13 witness: the branch was entered, and two more calls were made after it.
C13_Witness ==
    /\ status = "ok"
    /\ recals = 1
    /\ ~last.recal
    /\ IsPush(last.op)
    /\ Binary_len(bin) = SampleRows + 3

\* C14: a push that fails with offset overflow leaves the builder as it was
\* before the call (offsets, values bytes and len() unchanged), so
\* values.len() = offsets.last() still holds after the failure.
C14_OverflowLeavesBuilder ==
    [][(/\ BuilderCall
        /\ last'.op = "push"
        /\ Offsets_last(bin.offsets) + Len(last'.v) > OffsetMax)
       => (/\ bin'.offsets.buf = bin.offsets.buf
           /\ bin'.values.buf = bin.values.buf
           /\ Binary_len(bin') = Binary_len(bin)
           /\ Len(bin'.values.buf) = Offsets_last(bin'.offsets))]_vars

\* The quotient reserve computes (utils.rs:49), and the average number of
\* bytes per appended entry.
ReserveQuotient(B) == Len(B.values.buf) \div Max(Offsets_last(B.offsets), 1)
AvgBytesPerEntry(B) == Len(B.values.buf) \div Max(Binary_len(B), 1)

\* C15: reserve(additional) leaves len(), the offsets and the values bytes
\* unchanged; afterwards the offsets buffer has spare capacity for at least
\* `additional` entries and the values buffer has spare capacity of at least
\* additional * (values.len() / max(last_offset, 1)) bytes, that quotient
\* being the builder's average number of bytes per appended value.
C15_ReserveByAverage ==
    [][(BuilderCall /\ last'.op = "reserve")
       => LET additional == last'.k
          IN /\ status' = "ok"
             /\ Binary_len(bin') = Binary_len(bin)
             /\ bin'.offsets.buf = bin.offsets.buf
             /\ bin'.values.buf = bin.values.buf
             /\ bin'.offsets.cap - Len(bin'.offsets.buf) >= additional
             /\ bin'.values.cap - Len(bin'.values.buf)
                    >= additional * ReserveQuotient(bin)
             /\ ReserveQuotient(bin) = AvgBytesPerEntry(bin)]_vars

\* C16: in every state of a builder that can still be called, the per-value
\* size estimate of reserve, values.len() / max(offsets.last(), 1), is 0 when
\* no byte has been pushed and 1 otherwise, whatever the number and lengths
\* of the values; hence reserve(additional) asks for at most `additional`
\* spare value bytes: it leaves the values capacity alone when that much is
\* spare, and never grows it past max(2 * capacity, len + additional, 8).
C16_QuotientState ==
    status # "panic_unwrap" =>
        ReserveQuotient(bin) =
            IF \A i \in 1..Len(entries) : entries[i] = <<>> THEN 0 ELSE 1

C16_ReserveStep ==
    (BuilderCall /\ last'.op = "reserve") =>
        LET additional == last'.k
            len == Len(bin.values.buf)
            cap == bin.values.cap
        IN /\ cap - len >= additional => bin'.values.cap = cap
           /\ bin'.values.cap <= Max(Max(cap * 2, len + additional), 8)
           /\ bin'.values.cap >= cap

C16_QuotientIsZeroOrOne == [] C16_QuotientState /\ [][C16_ReserveStep]_vars

\* C16 witness: reserve(50) on a builder holding two 800-byte values: the
\* quotient is 1 and the capacity stays where it was.
C16_Witness ==
    /\ status = "ok"
    /\ last.op = "reserve" /\ last.k = 50
    /\ Binary_len(bin) = 2
    /\ Len(bin.values.buf) = 2 * BigLen
    /\ ReserveQuotient(bin) = 1
    /\ AvgBytesPerEntry(bin) = BigLen

\* The bytes the records of ys take in a framing: 4 + length each.
RECURSIVE Consumed(_)
Consumed(ys) == IF ys = <<>> THEN 0 ELSE PrefixLen + Len(Head(ys)) + Consumed(Tail(ys))

\* The position in the input after which the i-th yielded value starts.
ValueStart(i) == Consumed(SubSeq(yielded, 1, i - 1)) + PrefixLen

\* C17: in every state of the cursor the remaining view is a suffix of the
\* input, the bytes consumed (input length - remaining length) are the sum
\* of 4 + length over the values yielded, every yielded value is the
\* sub-range of the input right after its 4-byte prefix, and the ranges
\* follow one another without overlap.
C17_ConsumptionAccounting ==
    LET orig == input.values
        c    == Consumed(yielded)
    IN /\ c <= Len(orig)
       /\ it.values = SubSeq(orig, c + 1, Len(orig))
       /\ Len(orig) - Len(it.values) = c
       /\ \A i \in 1..Len(yielded) :
            LET s == ValueStart(i)
            IN /\ s + Len(yielded[i]) <= Len(orig)
               /\ from_le_bytes(SubSeq(orig, s - PrefixLen + 1, s)) = Len(yielded[i])
               /\ yielded[i] = SubSeq(orig, s + 1, s + Len(yielded[i]))
               /\ i > 1 => s - PrefixLen = ValueStart(i - 1) + Len(yielded[i - 1])

\* C17 witness: three values yielded, bytes still left in the view.
C17_Witness ==
    /\ Len(yielded) = 3
    /\ yielded[1] # <<>> /\ yielded[3] # <<>>
    /\ it.values # <<>>
    /\ Len(input.values) - Len(it.values) = Consumed(yielded)

\* C18: once next() has returned None, every later call returns None and
\* leaves the remaining count (0) and the remaining view (empty) as they are;
\* no value is yielded again.
C18_ExhaustionStable ==
    [][(NextCall /\ it_status = "none")
       => (/\ it_status' = "none"
           /\ it' = it
           /\ it'.max_num_values = 0
           /\ it'.values = <<>>
           /\ yielded' = yielded)]_vars

\* C18 witness: next() called twice more after the call that returned None.
C18_Witness ==
    /\ it_status = "none"
    /\ Len(yielded) = 2
    /\ it_calls = Len(yielded) + 3

=============================================================================
